---------------------------- MODULE Spec2Model ----------------------------
(***************************************************************************)
(* A model of net2-rs: the owning socket Handle of src/sys/unix/mod.rs     *)
(* (sys::Socket) and the option layer of src/ext.rs (setopt/getopt, the    *)
(* stream/datagram extension traits, do_connect and the conversions).      *)
(*                                                                         *)
(* The kernel is modelled as a descriptor table (fdtab) and, for one       *)
(* socket, a table of option values (opt).  Every syscall is one step of   *)
(* the kernel and may fail; the failure is an input of the action.         *)
(***************************************************************************)
EXTENDS Integers, Sequences, FiniteSets, TLC

VARIABLES
    fdtab,      \* kernel descriptor table: fd -> [open, cloexec, closes]
    sock,       \* the sys::Socket made for fd: "none" | "owned" | "moved" | "dropped"
    vals,       \* the std value holding fd: "none" | "stream" | "listener" | "datagram"
    creating,   \* fd returned by socket() while Socket::new has not yet returned, else 0
    inherited,  \* descriptors a child process spawned by another thread has kept
    opt,        \* kernel option values of the socket the option calls work on
    prev,       \* the call before the last one (record of op, arguments, result)
    last        \* the last call: op, arguments, syscalls issued, result

vars == <<fdtab, sock, vals, creating, inherited, opt, prev, last>>

(***************************************************************************)
(* Bounds of the model.                                                    *)
(***************************************************************************)
MaxFd == 2
MaxAddrs == 3
LifecycleAddrs == 1

(***************************************************************************)
(* Values: io::Result, Option, io::Error.                                  *)
(***************************************************************************)
None == [some |-> FALSE, v |-> 0]
Some(x) == [some |-> TRUE, v |-> x]

\* io::Error::from_raw_os_error(code), what ::cvt makes of a failed syscall
OsError(code) == [repr |-> "Os", os |-> Some(code), kind |-> "FromCode", msg |-> ""]
\* io::Error::new(kind, msg): a custom error, raw_os_error() is None
CustomError(kind, msg) == [repr |-> "Custom", os |-> None, kind |-> kind, msg |-> msg]

Ok(x) == [ok |-> TRUE, val |-> x]
Err(e) == [ok |-> FALSE, err |-> e]
Unit == "()"

\* errno values a failing syscall may report (EBADF, EINVAL)
Errnos == {9, 22}
\* cvt: a syscall result to io::Result; errno = 0 stands for a successful call
cvt(errno, x) == IF errno = 0 THEN Ok(x) ELSE Err(OsError(errno))

NoCall == [op |-> "none"]
Kinds == {"stream", "listener", "datagram"}
Fds == DOMAIN fdtab

(***************************************************************************)
(* sys::Socket (src/sys/unix/mod.rs)                                       *)
(***************************************************************************)
\* libc::close(fd): one close call on fd.  errno = 0: the descriptor is released.
\* A failed close leaves the descriptor as the kernel decides (stillOpen).
close(tab, fd, errno, stillOpen) ==
    [tab EXCEPT ![fd].closes = @ + 1,
                ![fd].open = IF errno = 0 THEN FALSE ELSE stillOpen]

\* Drop for Socket: let _ = libc::close(self.fd); the result is thrown away
DropResult(errno) == Unit

DropSocket(tab, fd, errno, stillOpen) == close(tab, fd, errno, stillOpen)

\* into_fd: let fd = self.fd; mem::forget(self); fd -- no destructor runs
into_fd_dropping(tab, fd) == DropSocket(tab, fd, 0, FALSE)
into_fd(tab, fd) == tab

\* Socket::new, first syscall: libc::socket(family, ty, 0) through cvt and try!
Socket_new_socket ==
    /\ creating = 0
    /\ Len(fdtab) < MaxFd
    /\ \E errno \in {0} \cup Errnos :
         IF errno # 0
         THEN /\ last' = [op |-> "create", sys |-> <<errno>>,
                          ret |-> Err(OsError(errno))]
              /\ UNCHANGED <<fdtab, sock, vals, creating>>
         ELSE /\ fdtab' = Append(fdtab, [open |-> TRUE, cloexec |-> FALSE, closes |-> 0])
              /\ sock' = Append(sock, "none")
              /\ vals' = Append(vals, "none")
              /\ creating' = Len(fdtab) + 1
              /\ UNCHANGED last
    /\ UNCHANGED <<inherited, opt, prev>>

\* Socket::new, second syscall: ioctl(fd, FIOCLEX); its result is not looked at,
\* then Ok(Socket { fd: fd })
Socket_new_ioctl ==
    /\ creating # 0
    /\ \E errno \in {0} \cup Errnos :
         /\ fdtab' = [fdtab EXCEPT ![creating].cloexec = (errno = 0)]
         /\ last' = [op |-> "create", sys |-> <<0, errno>>, ret |-> Ok(creating)]
    /\ sock' = [sock EXCEPT ![creating] = "owned"]
    /\ creating' = 0
    /\ UNCHANGED <<vals, inherited, opt, prev>>

\* Socket::raw: a peek at the descriptor
raw(fd) ==
    /\ sock[fd] = "owned"
    /\ last' = [op |-> "raw", fd |-> fd, ret |-> fd]
    /\ UNCHANGED <<fdtab, sock, vals, creating, inherited, opt, prev>>

\* into_tcp_stream / into_tcp_listener / into_udp_socket:
\* <Kind>::from_raw_fd(self.into_fd())
into_value(fd, kind) ==
    /\ sock[fd] = "owned"
    /\ fdtab' = into_fd(fdtab, fd)
    /\ sock' = [sock EXCEPT ![fd] = "moved"]
    /\ vals' = [vals EXCEPT ![fd] = kind]
    /\ last' = [op |-> "into", fd |-> fd, kind |-> kind, ret |-> fd]
    /\ UNCHANGED <<creating, inherited, opt, prev>>

into_tcp_stream(fd) == into_value(fd, "stream")
into_tcp_listener(fd) == into_value(fd, "listener")
into_udp_socket(fd) == into_value(fd, "datagram")

\* a Socket that still owns its descriptor goes out of scope: Drop for Socket runs
drop(fd) ==
    /\ sock[fd] = "owned"
    /\ \E errno \in {0} \cup Errnos, stillOpen \in BOOLEAN :
         /\ fdtab' = DropSocket(fdtab, fd, errno, stillOpen)
         /\ last' = [op |-> "drop", fd |-> fd, sys |-> <<errno>>,
                     ret |-> DropResult(errno)]
    /\ sock' = [sock EXCEPT ![fd] = "dropped"]
    /\ UNCHANGED <<vals, creating, inherited, opt, prev>>

\* another thread spawns a child (fork + exec) while this one works: the child
\* keeps every open descriptor that lacks FIOCLEX
Spawn ==
    /\ inherited' = inherited \cup {fd \in Fds : fdtab[fd].open /\ ~fdtab[fd].cloexec}
    /\ inherited' # inherited
    /\ UNCHANGED <<fdtab, sock, vals, creating, opt, prev, last>>


(***************************************************************************)
(* Explicit connect (src/ext.rs, do_connect)                               *)
(***************************************************************************)
Addr == {"bad1", "bad2", "good", "good2"}

AddrSeqs(n) == UNION {[1..k -> Addr] : k \in 0..n}

\* what the connect syscall answers for each address: ECONNREFUSED for bad1,
\* EHOSTUNREACH for bad2, success for the others
ConnectErrno(addr) ==
    CASE addr = "bad1" -> 111
      [] addr = "bad2" -> 113
      [] OTHER -> 0

\* sock.connect(&addr): one connect syscall on the wrapped descriptor
sock_connect(addr) == cvt(ConnectErrno(addr), Unit)

\* addr.to_socket_addrs(): a failed resolution, or the candidate sequence
ResolveError == CustomError("InvalidInput", "invalid socket address")
Resolved(n) == {Err(ResolveError)} \cup {Ok(addrs) : addrs \in AddrSeqs(n)}

\* let err = io::Error::new(io::ErrorKind::Other, "no socket addresses resolved")
do_connect_err_os == OsError(22)
do_connect_err == CustomError("Other", "no socket addresses resolved")

\* the closure of the fold: prev.or_else(|_| sock.connect(&addr))
connect_step_always(prevres, addr) == [ret |-> sock_connect(addr), tried |-> TRUE]
connect_step_first_error(prevres, addr) ==
    IF prevres.ok
    THEN [ret |-> prevres, tried |-> FALSE]
    ELSE [ret |-> IF sock_connect(addr).ok \/ prevres.err = do_connect_err
                  THEN sock_connect(addr) ELSE prevres,
          tried |-> TRUE]
connect_step(prevres, addr) ==
    IF prevres.ok
    THEN [ret |-> prevres, tried |-> FALSE]
    ELSE [ret |-> sock_connect(addr), tried |-> TRUE]

\* addrs.fold(Err(err), closure): left to right over the candidates; log is the
\* sequence of addresses a connect syscall was issued for
RECURSIVE connect_fold(_, _, _)
connect_fold(acc, addrs, log) ==
    IF addrs = <<>>
    THEN [ret |-> acc, log |-> log]
    ELSE LET s == connect_step(acc, Head(addrs))
         IN  connect_fold(s.ret, Tail(addrs),
                          IF s.tried THEN Append(log, Head(addrs)) ELSE log)

\* sys::Socket::from_inner(fd): a Socket around a descriptor it did not open
from_inner(fd) == [fd |-> fd]

\* mem::forget(sock): the temporary Socket is forgotten, its Drop never runs
mem_forget_dropping(tab, s) == DropSocket(tab, s.fd, 0, FALSE)
mem_forget(tab, s) == tab

\* TcpStreamExt::connect / UdpSocketExt::connect -> do_connect(self.as_sock(), addr)
do_connect(fd, res) ==
    /\ vals[fd] \in {"stream", "datagram"}
    /\ IF ~res.ok
       THEN /\ last' = [op |-> "connect", fd |-> fd, resolved |-> FALSE,
                        addrs |-> <<>>, log |-> <<>>, ret |-> res]
            /\ UNCHANGED fdtab
       ELSE LET tmp == from_inner(fd)
                r == connect_fold(Err(do_connect_err), res.val, <<>>)
            IN  /\ fdtab' = mem_forget(fdtab, tmp)
                /\ last' = [op |-> "connect", fd |-> fd, resolved |-> TRUE,
                            addrs |-> res.val, log |-> r.log, ret |-> r.ret]
    /\ UNCHANGED <<sock, vals, creating, inherited, opt, prev>>

(***************************************************************************)
(* Specification of the Handle life cycle: create, raw, into_*, drop and   *)
(* explicit connect, with a second thread spawning children.               *)
(***************************************************************************)
NoOpt == [kind |-> "none"]

Init ==
    /\ fdtab = <<>>
    /\ sock = <<>>
    /\ vals = <<>>
    /\ creating = 0
    /\ inherited = {}
    /\ opt = NoOpt
    /\ prev = NoCall
    /\ last = NoCall

Next ==
    \/ Socket_new_socket
    \/ Socket_new_ioctl
    \/ \E fd \in Fds : raw(fd)
    \/ \E fd \in Fds : into_tcp_stream(fd)
    \/ \E fd \in Fds : into_tcp_listener(fd)
    \/ \E fd \in Fds : into_udp_socket(fd)
    \/ \E fd \in Fds : drop(fd)
    \/ \E fd \in Fds, res \in Resolved(LifecycleAddrs) : do_connect(fd, res)
    \/ Spawn

Spec == Init /\ [][Next]_vars

(***************************************************************************)
(* Specification of explicit connect alone: one descriptor that a stream   *)
(* or a datagram value already owns, connected over candidate sequences.   *)
(***************************************************************************)
InitConnect ==
    /\ \E c \in BOOLEAN : fdtab = <<[open |-> TRUE, cloexec |-> c, closes |-> 0]>>
    /\ sock = <<"moved">>
    /\ \E k \in {"stream", "datagram"} : vals = <<k>>
    /\ creating = 0
    /\ inherited = {}
    /\ opt = NoOpt
    /\ prev = NoCall
    /\ last = NoCall

NextConnect == \E fd \in Fds, res \in Resolved(MaxAddrs) : do_connect(fd, res)

SpecConnect == InitConnect /\ [][NextConnect]_vars

(***************************************************************************)
(* Option codec and conversions (src/ext.rs)                               *)
(***************************************************************************)
\* Rust's `as` casts between u32 and c_int (i32) keep every value of
\* 0 .. 2^31 - 1, which is all a model value can be (TLC's integers are 32 bits
\* wide): a u32 above that range, read as a negative c_int, is out of reach here
as_u32(n) == n
as_c_int(n) == n
bool_as_c_int(b) == IF b THEN 1 ELSE 0

\* the idle-time option name of the platform (TCP_KEEPIDLE unless macos/ios)
KEEPALIVE_OPTION == "TCP_KEEPIDLE"

\* setopt: one setsockopt with the payload, through cvt and try!
setopt(o, name, payload, errno) ==
    IF errno # 0
    THEN [opt |-> o, ret |-> Err(OsError(errno))]
    ELSE [opt |-> [o EXCEPT ![name] = payload], ret |-> Ok(Unit)]

\* getopt: one getsockopt into a zeroed slot, through cvt and try!
getopt(o, name, errno) == cvt(errno, o[name])

\* ms2timeout (unix): Option<u32> milliseconds to libc::timeval
ms2timeout_nonzero_none(dur) ==
    IF dur.some
    THEN [tv_sec |-> dur.v \div 1000, tv_usec |-> dur.v % 1000]
    ELSE [tv_sec |-> 0, tv_usec |-> 1]
ms2timeout(dur) ==
    IF dur.some
    THEN [tv_sec |-> dur.v \div 1000, tv_usec |-> dur.v % 1000]
    ELSE [tv_sec |-> 0, tv_usec |-> 0]

\* timeout2ms (unix): libc::timeval to Option<u32> milliseconds
timeout2ms(tv) ==
    IF tv.tv_sec = 0 /\ tv.tv_usec = 0
    THEN None
    ELSE Some(as_u32(as_u32(tv.tv_sec) * 1000 + as_u32(tv.tv_usec) \div 1000))

\* the socket the option calls work on: descriptor 1, held by a std value
OptSock == 1

set_timeout_ms(op, name, dur) ==
    /\ vals[OptSock] \in {"stream", "datagram"}
    /\ \E errno \in {0} \cup Errnos :
         LET r == setopt(opt, name, ms2timeout(dur), errno)
         IN  /\ opt' = r.opt
             /\ last' = [op |-> op, name |-> name, arg |-> dur,
                         sys |-> <<errno>>, ret |-> r.ret]
    /\ prev' = last
    /\ UNCHANGED <<fdtab, sock, vals, creating, inherited>>

timeout_ms(op, name) ==
    /\ vals[OptSock] \in {"stream", "datagram"}
    /\ \E errno \in {0} \cup Errnos :
         LET r == getopt(opt, name, errno)
         IN  last' = [op |-> op, name |-> name, sys |-> <<errno>>,
                      ret |-> IF r.ok THEN Ok(timeout2ms(r.val)) ELSE r]
    /\ prev' = last
    /\ UNCHANGED <<fdtab, sock, vals, creating, inherited, opt>>

\* TcpStreamExt / UdpSocketExt: the four timeout methods
set_read_timeout_ms(dur) == set_timeout_ms("set_read_timeout_ms", "SO_RCVTIMEO", dur)
read_timeout_ms == timeout_ms("read_timeout_ms", "SO_RCVTIMEO")
set_write_timeout_ms(dur) == set_timeout_ms("set_write_timeout_ms", "SO_SNDTIMEO", dur)
write_timeout_ms == timeout_ms("write_timeout_ms", "SO_SNDTIMEO")

\* set_keepalive_ms as a slip would change it: "idle_on_none" also writes the
\* idle time when disabling (keepalive.unwrap_or(0)), "rollback" undoes the enable
\* flag when the idle-time syscall fails, "ignore_first" drops the try! around
\* the first setopt
set_keepalive_ms_variant(keepalive, variant) ==
    /\ vals[OptSock] = "stream"
    /\ \E e1 \in {0} \cup Errnos, e2 \in {0} \cup Errnos :
         LET r1 == setopt(opt, "SO_KEEPALIVE", bool_as_c_int(keepalive.some), e1)
             r2 == setopt(r1.opt, KEEPALIVE_OPTION, as_c_int(keepalive.v), e2)
             second == /\ r1.ret.ok \/ variant = "ignore_first"
                       /\ keepalive.some \/ variant = "idle_on_none"
         IN  IF second
             THEN /\ opt' = IF ~r2.ret.ok /\ variant = "rollback" THEN opt ELSE r2.opt
                  /\ last' = [op |-> "set_keepalive_ms", arg |-> keepalive,
                              sys |-> <<e1, e2>>, ret |-> r2.ret]
             ELSE /\ opt' = r1.opt
                  /\ last' = [op |-> "set_keepalive_ms", arg |-> keepalive,
                              sys |-> <<e1>>, ret |-> r1.ret]
    /\ prev' = last
    /\ UNCHANGED <<fdtab, sock, vals, creating, inherited>>

set_keepalive_ms_idle_on_none(keepalive) ==
    set_keepalive_ms_variant(keepalive, "idle_on_none")
set_keepalive_ms_rollback(keepalive) ==
    set_keepalive_ms_variant(keepalive, "rollback")
set_keepalive_ms_ignore_first(keepalive) ==
    set_keepalive_ms_variant(keepalive, "ignore_first")

\* TcpStreamExt::set_keepalive_ms (unix): SO_KEEPALIVE, then, when enabling, the
\* idle-time option with `dur as c_int`
set_keepalive_ms(keepalive) ==
    /\ vals[OptSock] = "stream"
    /\ \E e1 \in {0} \cup Errnos, e2 \in {0} \cup Errnos :
         LET r1 == setopt(opt, "SO_KEEPALIVE", bool_as_c_int(keepalive.some), e1)
             r2 == setopt(r1.opt, KEEPALIVE_OPTION, as_c_int(keepalive.v), e2)
         IN  IF ~r1.ret.ok
             THEN /\ opt' = r1.opt
                  /\ last' = [op |-> "set_keepalive_ms", arg |-> keepalive,
                              sys |-> <<e1>>, ret |-> r1.ret]
             ELSE IF keepalive.some
             THEN /\ opt' = r2.opt
                  /\ last' = [op |-> "set_keepalive_ms", arg |-> keepalive,
                              sys |-> <<e1, e2>>, ret |-> r2.ret]
             ELSE /\ opt' = r1.opt
                  /\ last' = [op |-> "set_keepalive_ms", arg |-> keepalive,
                              sys |-> <<e1>>, ret |-> Ok(Unit)]
    /\ prev' = last
    /\ UNCHANGED <<fdtab, sock, vals, creating, inherited>>

\* TcpStreamExt::keepalive_ms (unix): SO_KEEPALIVE, then, when it is on, the
\* idle-time option returned with `secs as u32`
keepalive_ms ==
    /\ vals[OptSock] = "stream"
    /\ \E e1 \in {0} \cup Errnos, e2 \in {0} \cup Errnos :
         LET k == getopt(opt, "SO_KEEPALIVE", e1)
             secs == getopt(opt, KEEPALIVE_OPTION, e2)
         IN  last' = IF ~k.ok
                     THEN [op |-> "keepalive_ms", sys |-> <<e1>>, ret |-> k]
                     ELSE IF k.val = 0
                     THEN [op |-> "keepalive_ms", sys |-> <<e1>>, ret |-> Ok(None)]
                     ELSE [op |-> "keepalive_ms", sys |-> <<e1, e2>>,
                           ret |-> IF secs.ok THEN Ok(Some(as_u32(secs.val))) ELSE secs]
    /\ prev' = last
    /\ UNCHANGED <<fdtab, sock, vals, creating, inherited, opt>>

(***************************************************************************)
(* Specifications of the option calls on one socket.  The millisecond      *)
(* arguments are whole and half seconds up to MaxSecs.                     *)
(***************************************************************************)
MaxSecs == 1

MsValues == {s * 1000 + r : s \in 0..MaxSecs, r \in {0, 500}}
OptionMs == {None} \cup {Some(ms) : ms \in MsValues}

\* a fresh socket: no timeouts, keepalive off, the kernel's default idle time
InitOpt(kinds) ==
    /\ fdtab = <<[open |-> TRUE, cloexec |-> TRUE, closes |-> 0]>>
    /\ sock = <<"moved">>
    /\ \E k \in kinds : vals = <<k>>
    /\ creating = 0
    /\ inherited = {}
    /\ opt = [SO_RCVTIMEO |-> [tv_sec |-> 0, tv_usec |-> 0],
              SO_SNDTIMEO |-> [tv_sec |-> 0, tv_usec |-> 0],
              SO_KEEPALIVE |-> 0,
              TCP_KEEPIDLE |-> 7200]
    /\ prev = NoCall
    /\ last = NoCall

InitTimeout == InitOpt({"stream", "datagram"})

NextTimeout ==
    \/ \E dur \in OptionMs : set_read_timeout_ms(dur)
    \/ read_timeout_ms
    \/ \E dur \in OptionMs : set_write_timeout_ms(dur)
    \/ write_timeout_ms

SpecTimeout == InitTimeout /\ [][NextTimeout]_vars

InitKeepalive == InitOpt({"stream"})

NextKeepalive ==
    \/ \E keepalive \in OptionMs : set_keepalive_ms(keepalive)
    \/ keepalive_ms

SpecKeepalive == InitKeepalive /\ [][NextKeepalive]_vars

(***************************************************************************)
(* Specification of the operations of a connected-or-not stream socket     *)
(* that issue more than one syscall: the keepalive pair and explicit       *)
(* connect, on one descriptor.                                             *)
(***************************************************************************)
FacadeAddrs == 2

\* the keepalive arguments of this specification: disable, and one idle time
FacadeMs == {None, Some(1000)}

InitFacade == InitOpt({"stream"})

NextFacade ==
    \/ \E keepalive \in FacadeMs : set_keepalive_ms(keepalive)
    \/ keepalive_ms
    \/ \E fd \in Fds, res \in Resolved(FacadeAddrs) : do_connect(fd, res)

SpecFacade == InitFacade /\ [][NextFacade]_vars

(***************************************************************************)
(* Boolean options (src/ext.rs): one setsockopt of `v as c_int`, one       *)
(* getsockopt read back through int2bool.                                  *)
(***************************************************************************)
\* fn int2bool(n: c_int) -> bool
int2bool_negated(n) == n = 0
int2bool(n) == IF n = 0 THEN FALSE ELSE TRUE

\* setopt(self.as_sock(), level, name, v as c_int) on a socket of one of `kinds`
set_bool(op, kinds, name, v) ==
    /\ vals[OptSock] \in kinds
    /\ \E errno \in {0} \cup Errnos :
         LET r == setopt(opt, name, bool_as_c_int(v), errno)
         IN  /\ opt' = r.opt
             /\ last' = [op |-> op, name |-> name, arg |-> v,
                         sys |-> <<errno>>, ret |-> r.ret]
    /\ prev' = last
    /\ UNCHANGED <<fdtab, sock, vals, creating, inherited>>

\* get_bool as a read that also resets the option it read
get_bool_resetting(op, kinds, name) ==
    /\ vals[OptSock] \in kinds
    /\ \E errno \in {0} \cup Errnos :
         LET r == getopt(opt, name, errno)
         IN  /\ opt' = [opt EXCEPT ![name] = 0]
             /\ last' = [op |-> op, name |-> name, sys |-> <<errno>>,
                         ret |-> IF r.ok THEN Ok(int2bool(r.val)) ELSE r]
    /\ prev' = last
    /\ UNCHANGED <<fdtab, sock, vals, creating, inherited>>

\* getopt(self.as_sock(), level, name).map(int2bool)
get_bool(op, kinds, name) ==
    /\ vals[OptSock] \in kinds
    /\ \E errno \in {0} \cup Errnos :
         LET r == getopt(opt, name, errno)
         IN  last' = [op |-> op, name |-> name, sys |-> <<errno>>,
                      ret |-> IF r.ok THEN Ok(int2bool(r.val)) ELSE r]
    /\ prev' = last
    /\ UNCHANGED <<fdtab, sock, vals, creating, inherited, opt>>

set_nodelay(nodelay) == set_bool("set_nodelay", {"stream"}, "TCP_NODELAY", nodelay)
nodelay == get_bool("nodelay", {"stream"}, "TCP_NODELAY")
set_broadcast(broadcast) ==
    set_bool("set_broadcast", {"datagram"}, "SO_BROADCAST", broadcast)
broadcast == get_bool("broadcast", {"datagram"}, "SO_BROADCAST")
set_multicast_loop_v4(multicast_loop_v4) ==
    set_bool("set_multicast_loop_v4", {"datagram"}, "IP_MULTICAST_LOOP",
             multicast_loop_v4)
multicast_loop_v4 == get_bool("multicast_loop_v4", {"datagram"}, "IP_MULTICAST_LOOP")
set_multicast_loop_v6(multicast_loop_v6) ==
    set_bool("set_multicast_loop_v6", {"datagram"}, "IPV6_MULTICAST_LOOP",
             multicast_loop_v6)
multicast_loop_v6 ==
    get_bool("multicast_loop_v6", {"datagram"}, "IPV6_MULTICAST_LOOP")
\* set_only_v6 / only_v6 are methods of all three extension traits
set_only_v6(only_v6) == set_bool("set_only_v6", Kinds, "IPV6_V6ONLY", only_v6)
only_v6 == get_bool("only_v6", Kinds, "IPV6_V6ONLY")

BoolOptions ==
    {"TCP_NODELAY", "SO_BROADCAST", "IP_MULTICAST_LOOP", "IPV6_MULTICAST_LOOP",
     "IPV6_V6ONLY"}
BoolSetters ==
    {"set_nodelay", "set_broadcast", "set_multicast_loop_v4",
     "set_multicast_loop_v6", "set_only_v6"}
BoolGetters ==
    {"nodelay", "broadcast", "multicast_loop_v4", "multicast_loop_v6", "only_v6"}

\* an open socket of any kind with the options at their defaults (multicast
\* loopback on, the others off)
InitBool ==
    /\ fdtab = <<[open |-> TRUE, cloexec |-> TRUE, closes |-> 0]>>
    /\ sock = <<"moved">>
    /\ \E k \in Kinds : vals = <<k>>
    /\ creating = 0
    /\ inherited = {}
    /\ opt = [TCP_NODELAY |-> 0, SO_BROADCAST |-> 0, IP_MULTICAST_LOOP |-> 1,
              IPV6_MULTICAST_LOOP |-> 1, IPV6_V6ONLY |-> 0]
    /\ prev = NoCall
    /\ last = NoCall

NextBool ==
    \/ \E v \in BOOLEAN : set_nodelay(v)
    \/ nodelay
    \/ \E v \in BOOLEAN : set_broadcast(v)
    \/ broadcast
    \/ \E v \in BOOLEAN : set_multicast_loop_v4(v)
    \/ multicast_loop_v4
    \/ \E v \in BOOLEAN : set_multicast_loop_v6(v)
    \/ multicast_loop_v6
    \/ \E v \in BOOLEAN : set_only_v6(v)
    \/ only_v6

SpecBool == InitBool /\ [][NextBool]_vars

(***************************************************************************)
(* Time-to-live options (src/ext.rs): IP_TTL on all three kinds of socket, *)
(* IP_MULTICAST_TTL on datagram sockets.                                   *)
(***************************************************************************)
MaxTtl == 3

\* ttl: u32, as far as the model goes
TtlValues == 0..MaxTtl

\* setopt(self.as_sock(), IPPROTO_IP, name, ttl as c_int)
set_ttl_option(op, kinds, name, ttl) ==
    /\ vals[OptSock] \in kinds
    /\ \E errno \in {0} \cup Errnos :
         LET r == setopt(opt, name, as_c_int(ttl), errno)
         IN  /\ opt' = r.opt
             /\ last' = [op |-> op, name |-> name, arg |-> ttl,
                         sys |-> <<errno>>, ret |-> r.ret]
    /\ prev' = last
    /\ UNCHANGED <<fdtab, sock, vals, creating, inherited>>

\* getopt::<c_int>(self.as_sock(), IPPROTO_IP, name).map(|b| b as u32)
ttl_option(op, kinds, name) ==
    /\ vals[OptSock] \in kinds
    /\ \E errno \in {0} \cup Errnos :
         LET r == getopt(opt, name, errno)
         IN  last' = [op |-> op, name |-> name, sys |-> <<errno>>,
                      ret |-> IF r.ok THEN Ok(as_u32(r.val)) ELSE r]
    /\ prev' = last
    /\ UNCHANGED <<fdtab, sock, vals, creating, inherited, opt>>

\* set_ttl / ttl are methods of all three extension traits
set_ttl_as_multicast_ttl(ttl) == set_ttl_option("set_ttl", Kinds, "IP_MULTICAST_TTL", ttl)
set_ttl(ttl) == set_ttl_option("set_ttl", Kinds, "IP_TTL", ttl)
ttl == ttl_option("ttl", Kinds, "IP_TTL")
set_multicast_ttl_v4(multicast_ttl_v4) ==
    set_ttl_option("set_multicast_ttl_v4", {"datagram"}, "IP_MULTICAST_TTL",
                   multicast_ttl_v4)
multicast_ttl_v4 == ttl_option("multicast_ttl_v4", {"datagram"}, "IP_MULTICAST_TTL")

\* an open socket of any kind with the kernel's defaults: 64 hops, 1 for multicast
InitTtl ==
    /\ fdtab = <<[open |-> TRUE, cloexec |-> TRUE, closes |-> 0]>>
    /\ sock = <<"moved">>
    /\ \E k \in Kinds : vals = <<k>>
    /\ creating = 0
    /\ inherited = {}
    /\ opt = [IP_TTL |-> 64, IP_MULTICAST_TTL |-> 1]
    /\ prev = NoCall
    /\ last = NoCall

NextTtl ==
    \/ \E n \in TtlValues : set_ttl(n)
    \/ ttl
    \/ \E n \in TtlValues : set_multicast_ttl_v4(n)
    \/ multicast_ttl_v4

SpecTtl == InitTtl /\ [][NextTtl]_vars

(***************************************************************************)
(* Pending error (src/ext.rs): take_error reads SO_ERROR, which the kernel *)
(* clears as it is read.                                                   *)
(***************************************************************************)
\* fn int2err(n: c_int) -> Option<io::Error>
int2err_always_some(n) == Some(OsError(n))
int2err(n) == IF n = 0 THEN None ELSE Some(OsError(n))

\* the errors the kernel may leave pending on a socket: ECONNREFUSED, EHOSTUNREACH
PendingErrnos == {111, 113}

\* getsockopt(SO_ERROR) as take_error's documentation describes it: "retrieve the
\* stored error in the underlying socket, clearing the field in the process"; a
\* failed getsockopt reads nothing and clears nothing
getopt_so_error(o, errno) ==
    [opt |-> IF errno = 0 THEN [o EXCEPT !.SO_ERROR = 0] ELSE o,
     ret |-> getopt(o, "SO_ERROR", errno)]

\* take_error: getopt(self.as_sock(), SOL_SOCKET, SO_ERROR).map(int2err), the same
\* in all three extension traits
take_error ==
    /\ vals[OptSock] \in Kinds
    /\ \E errno \in {0} \cup Errnos :
         LET r == getopt_so_error(opt, errno)
         IN  /\ opt' = r.opt
             /\ last' = [op |-> "take_error", sys |-> <<errno>>,
                         ret |-> IF r.ret.ok THEN Ok(int2err(r.ret.val)) ELSE r.ret]
    /\ prev' = last
    /\ UNCHANGED <<fdtab, sock, vals, creating, inherited>>

\* the network, not the program: an asynchronous failure (a refused connection, an
\* ICMP error) is stored in the socket's pending-error slot
PendError ==
    /\ \E code \in PendingErrnos :
         /\ opt' = [opt EXCEPT !.SO_ERROR = code]
         /\ last' = [op |-> "pend_error", code |-> code]
    /\ prev' = last
    /\ UNCHANGED <<fdtab, sock, vals, creating, inherited>>

\* an open socket of any kind, with or without an error pending
InitError ==
    /\ fdtab = <<[open |-> TRUE, cloexec |-> TRUE, closes |-> 0]>>
    /\ sock = <<"moved">>
    /\ \E k \in Kinds : vals = <<k>>
    /\ creating = 0
    /\ inherited = {}
    /\ \E code \in {0} \cup PendingErrnos : opt = [SO_ERROR |-> code]
    /\ prev = NoCall
    /\ last = NoCall

NextError ==
    \/ take_error
    \/ PendError

SpecError == InitError /\ [][NextError]_vars

(***************************************************************************)
(* The option codec on its own (src/ext.rs): setopt, and getopt with the   *)
(* length the kernel reports for the value it wrote.                       *)
(***************************************************************************)
\* mem::size_of::<T>() for T = c_int
c_int_size == 4

\* the lengths getsockopt may report back in *optlen
ReturnedLens == {1, c_int_size, 8}

\* assert_eq!(len as usize, mem::size_of::<T>()) failing: the thread panics and
\* getopt returns nothing
AssertionFailure == [panic |-> "assertion failed"]

\* fn getopt<T: Copy>: try!(cvt(getsockopt(.., &mut len))), then the assert_eq! on
\* len, then Ok(slot)
getopt_checked_mismatch_err(o, name, errno, len, size) ==
    IF errno = 0 /\ len # size THEN Err(OsError(22)) ELSE getopt(o, name, errno)
getopt_checked(o, name, errno, len, size) ==
    IF errno # 0
    THEN getopt(o, name, errno)
    ELSE IF len # size THEN AssertionFailure ELSE getopt(o, name, errno)

\* the c_int payloads of this specification
CodecPayloads == 0..1

\* setopt(sock, level, name, payload) called on its own
set_option(name, payload) ==
    /\ \E errno \in {0} \cup Errnos :
         LET r == setopt(opt, name, payload, errno)
         IN  /\ opt' = r.opt
             /\ last' = [op |-> "set_option", name |-> name, arg |-> payload,
                         sys |-> <<errno>>, ret |-> r.ret]
    /\ prev' = last
    /\ UNCHANGED <<fdtab, sock, vals, creating, inherited>>

\* getopt::<c_int>(sock, level, name) called on its own; what *optlen holds after
\* a failed getsockopt is not specified, so any length goes with any outcome
get_option(name) ==
    /\ \E errno \in {0} \cup Errnos, len \in ReturnedLens :
         last' = [op |-> "get_option", name |-> name, sys |-> <<errno>>,
                  len |-> len,
                  ret |-> getopt_checked(opt, name, errno, len, c_int_size)]
    /\ prev' = last
    /\ UNCHANGED <<fdtab, sock, vals, creating, inherited, opt>>

InitCodec ==
    /\ fdtab = <<[open |-> TRUE, cloexec |-> TRUE, closes |-> 0]>>
    /\ sock = <<"moved">>
    /\ \E k \in Kinds : vals = <<k>>
    /\ creating = 0
    /\ inherited = {}
    /\ opt = [SO_REUSEADDR |-> 0, IPV6_V6ONLY |-> 0]
    /\ prev = NoCall
    /\ last = NoCall

NextCodec ==
    \/ \E name \in DOMAIN opt, payload \in CodecPayloads : set_option(name, payload)
    \/ \E name \in DOMAIN opt : get_option(name)

SpecCodec == InitCodec /\ [][NextCodec]_vars

(***************************************************************************)
(* Multicast membership (src/ext.rs): join and leave build a membership    *)
(* request and hand it to setopt under the add or the drop option name.    *)
(***************************************************************************)
\* ::hton on a u16, as the two bytes it leaves in memory: network byte order,
\* the high byte first
hton16(x) == <<x \div 256, x % 256>>

\* fn ip2in_addr: s_addr = hton(oct[0] << 24 | oct[1] << 16 | oct[2] << 8 | oct[3]),
\* as the four bytes it leaves in memory (the u32 itself is beyond TLC's integers
\* for a multicast address): the octets in address order
ip2in_addr(ip) == [s_addr |-> <<ip[1], ip[2], ip[3], ip[4]>>]

\* fn ip2in6_addr: s6_addr = [hton(seg[0]), .., hton(seg[7])]
ip2in6_addr(ip) == [s6_addr |-> [i \in 1..8 |-> hton16(ip[i])]]

\* interface as c_uint: u32 to u32
as_c_uint(n) == n

\* Ipv4Addr values: two groups, and INADDR_ANY or an address as the interface
Groups4 == {<<224, 0, 0, 1>>, <<224, 0, 0, 251>>}
Interfaces4 == {<<0, 0, 0, 0>>, <<10, 0, 0, 1>>}
\* Ipv6Addr values (segments) and interface indexes
Groups6 == {<<65282, 0, 0, 0, 0, 0, 0, 1>>, <<65282, 0, 0, 0, 0, 0, 0, 251>>}
Interfaces6 == {0, 1}

\* setsockopt with a membership option name, as the kernel answers it: adding a
\* membership the socket has is EADDRINUSE, dropping one it has not is
\* EADDRNOTAVAIL; otherwise the membership is added to or removed from `table`
membership_errno(members, adding, mreq) ==
    IF adding
    THEN IF mreq \in members THEN 98 ELSE 0
    ELSE IF mreq \in members THEN 0 ELSE 99

\* setopt(self.as_sock(), level, name, mreq) for a membership request
setopt_membership(op, name, table, adding, arg, mreq) ==
    /\ vals[OptSock] = "datagram"
    /\ LET errno == membership_errno(opt[table], adding, mreq)
       IN  /\ opt' = IF errno # 0
                     THEN opt
                     ELSE [opt EXCEPT ![table] =
                               IF adding THEN @ \cup {mreq} ELSE @ \ {mreq}]
           /\ last' = [op |-> op, name |-> name, arg |-> arg, payload |-> mreq,
                       sys |-> <<errno>>, ret |-> cvt(errno, Unit)]
    /\ prev' = last
    /\ UNCHANGED <<fdtab, sock, vals, creating, inherited>>

join_multicast_v4(multiaddr, interface) ==
    LET mreq == [imr_multiaddr |-> ip2in_addr(multiaddr),
                 imr_interface |-> ip2in_addr(interface)]
    IN  setopt_membership("join_multicast_v4", "IP_ADD_MEMBERSHIP", "ip_mc",
                          TRUE, <<multiaddr, interface>>, mreq)

join_multicast_v6(multiaddr, interface) ==
    LET mreq == [ipv6mr_multiaddr |-> ip2in6_addr(multiaddr),
                 ipv6mr_interface |-> as_c_uint(interface)]
    IN  setopt_membership("join_multicast_v6", "IPV6_ADD_MEMBERSHIP", "ipv6_mc",
                          TRUE, <<multiaddr, interface>>, mreq)

\* leave_multicast_v4 with the two fields of the request filled the other way round
leave_multicast_v4_swapped(multiaddr, interface) ==
    LET mreq == [imr_multiaddr |-> ip2in_addr(interface),
                 imr_interface |-> ip2in_addr(multiaddr)]
    IN  setopt_membership("leave_multicast_v4", "IP_DROP_MEMBERSHIP", "ip_mc",
                          FALSE, <<multiaddr, interface>>, mreq)
leave_multicast_v4(multiaddr, interface) ==
    LET mreq == [imr_multiaddr |-> ip2in_addr(multiaddr),
                 imr_interface |-> ip2in_addr(interface)]
    IN  setopt_membership("leave_multicast_v4", "IP_DROP_MEMBERSHIP", "ip_mc",
                          FALSE, <<multiaddr, interface>>, mreq)

leave_multicast_v6(multiaddr, interface) ==
    LET mreq == [ipv6mr_multiaddr |-> ip2in6_addr(multiaddr),
                 ipv6mr_interface |-> as_c_uint(interface)]
    IN  setopt_membership("leave_multicast_v6", "IPV6_DROP_MEMBERSHIP", "ipv6_mc",
                          FALSE, <<multiaddr, interface>>, mreq)

\* an open datagram socket that is a member of no group
InitMulticast ==
    /\ fdtab = <<[open |-> TRUE, cloexec |-> TRUE, closes |-> 0]>>
    /\ sock = <<"moved">>
    /\ vals = <<"datagram">>
    /\ creating = 0
    /\ inherited = {}
    /\ opt = [ip_mc |-> {}, ipv6_mc |-> {}]
    /\ prev = NoCall
    /\ last = NoCall

NextMulticast ==
    \/ \E g \in Groups4, i \in Interfaces4 : join_multicast_v4(g, i)
    \/ \E g \in Groups6, i \in Interfaces6 : join_multicast_v6(g, i)
    \/ \E g \in Groups4, i \in Interfaces4 : leave_multicast_v4(g, i)
    \/ \E g \in Groups6, i \in Interfaces6 : leave_multicast_v6(g, i)

SpecMulticast == InitMulticast /\ [][NextMulticast]_vars

(***************************************************************************)
(* Two threads on one stream socket, one in set_keepalive_ms and one in    *)
(* keepalive_ms, a step per syscall: the methods take &self and hold no    *)
(* lock, so the syscalls of the two calls interleave freely.  `prev` is    *)
(* the setting thread's call, `last` the reading thread's.                 *)
(***************************************************************************)
\* try!(setopt(self.as_sock(), SOL_SOCKET, SO_KEEPALIVE, keepalive.is_some() as c_int))
set_keepalive_ms_enable ==
    /\ prev.op = "set_keepalive_ms"
    /\ prev.pc = "enable"
    /\ \E e1 \in {0} \cup Errnos :
         LET r == setopt(opt, "SO_KEEPALIVE", bool_as_c_int(prev.arg.some), e1)
         IN  /\ opt' = r.opt
             /\ prev' = [prev EXCEPT
                           !.pc = IF r.ret.ok /\ prev.arg.some THEN "idle" ELSE "done",
                           !.sys = <<e1>>,
                           !.ret = r.ret]
    /\ UNCHANGED <<fdtab, sock, vals, creating, inherited, last>>

\* if let Some(dur) = keepalive { try!(setopt(.., KEEPALIVE_OPTION, dur as c_int)) }
set_keepalive_ms_idle_secs ==
    /\ prev.op = "set_keepalive_ms"
    /\ prev.pc = "idle"
    /\ \E e2 \in {0} \cup Errnos :
         LET r == setopt(opt, KEEPALIVE_OPTION, as_c_int(prev.arg.v \div 1000), e2)
         IN  /\ opt' = r.opt
             /\ prev' = [prev EXCEPT !.pc = "done", !.sys = Append(@, e2),
                                     !.ret = r.ret]
    /\ UNCHANGED <<fdtab, sock, vals, creating, inherited, last>>
set_keepalive_ms_idle ==
    /\ prev.op = "set_keepalive_ms"
    /\ prev.pc = "idle"
    /\ \E e2 \in {0} \cup Errnos :
         LET r == setopt(opt, KEEPALIVE_OPTION, as_c_int(prev.arg.v), e2)
         IN  /\ opt' = r.opt
             /\ prev' = [prev EXCEPT !.pc = "done", !.sys = Append(@, e2),
                                     !.ret = r.ret]
    /\ UNCHANGED <<fdtab, sock, vals, creating, inherited, last>>

\* let keepalive = try!(getopt::<c_int>(.., SO_KEEPALIVE)); if keepalive == 0 { return Ok(None) }
keepalive_ms_flag ==
    /\ last.op = "keepalive_ms"
    /\ last.pc = "flag"
    /\ \E e1 \in {0} \cup Errnos :
         LET k == getopt(opt, "SO_KEEPALIVE", e1)
         IN  last' = [last EXCEPT
                        !.pc = IF k.ok /\ k.val # 0 THEN "idle" ELSE "done",
                        !.sys = <<e1>>,
                        !.ret = IF k.ok THEN Ok(None) ELSE k]
    /\ UNCHANGED <<fdtab, sock, vals, creating, inherited, opt, prev>>

\* let secs = try!(getopt::<c_int>(.., KEEPALIVE_OPTION)); Ok(Some(secs as u32))
keepalive_ms_idle ==
    /\ last.op = "keepalive_ms"
    /\ last.pc = "idle"
    /\ \E e2 \in {0} \cup Errnos :
         LET secs == getopt(opt, KEEPALIVE_OPTION, e2)
         IN  last' = [last EXCEPT
                        !.pc = "done",
                        !.sys = Append(@, e2),
                        !.ret = IF secs.ok THEN Ok(Some(as_u32(secs.val))) ELSE secs]
    /\ UNCHANGED <<fdtab, sock, vals, creating, inherited, opt, prev>>

\* the idle times a socket may hold when the calls start: the kernel's default
\* and one left by an earlier set
StoredIdle == {7200, 30}

\* both calls have been made and neither has issued a syscall; the record of the
\* set holds the flag and the idle time the socket had at the call
InitKeepaliveRace ==
    /\ fdtab = <<[open |-> TRUE, cloexec |-> TRUE, closes |-> 0]>>
    /\ sock = <<"moved">>
    /\ vals = <<"stream">>
    /\ creating = 0
    /\ inherited = {}
    /\ \E flag \in {0, 1}, idle \in StoredIdle, keepalive \in OptionMs :
         /\ opt = [SO_RCVTIMEO |-> [tv_sec |-> 0, tv_usec |-> 0],
                   SO_SNDTIMEO |-> [tv_sec |-> 0, tv_usec |-> 0],
                   SO_KEEPALIVE |-> flag,
                   TCP_KEEPIDLE |-> idle]
         /\ prev = [op |-> "set_keepalive_ms", pc |-> "enable", arg |-> keepalive,
                    flag_before |-> flag, idle_before |-> idle,
                    sys |-> <<>>, ret |-> Ok(Unit)]
    /\ last = [op |-> "keepalive_ms", pc |-> "flag", sys |-> <<>>, ret |-> Ok(None)]

NextKeepaliveRace ==
    \/ set_keepalive_ms_enable
    \/ set_keepalive_ms_idle
    \/ keepalive_ms_flag
    \/ keepalive_ms_idle

SpecKeepaliveRace == InitKeepaliveRace /\ [][NextKeepaliveRace]_vars

(***************************************************************************)
(* Specification of the option getters on one socket that holds every      *)
(* option and the pending-error slot, with take_error and the arrival of   *)
(* errors beside them.                                                     *)
(***************************************************************************)
\* the option values the socket starts with: the kernel's defaults, or what a
\* run of the setters leaves (timeouts of 1500 ms, keepalive on, flags flipped)
OptionProfiles ==
    {[SO_RCVTIMEO |-> ms2timeout(None), SO_SNDTIMEO |-> ms2timeout(None),
      SO_KEEPALIVE |-> 0, TCP_KEEPIDLE |-> 7200, TCP_NODELAY |-> 0,
      SO_BROADCAST |-> 0, IP_MULTICAST_LOOP |-> 1, IPV6_MULTICAST_LOOP |-> 1,
      IPV6_V6ONLY |-> 0, IP_TTL |-> 64, IP_MULTICAST_TTL |-> 1, SO_ERROR |-> 0],
     [SO_RCVTIMEO |-> ms2timeout(Some(1500)), SO_SNDTIMEO |-> ms2timeout(Some(1500)),
      SO_KEEPALIVE |-> 1, TCP_KEEPIDLE |-> as_c_int(1500), TCP_NODELAY |-> 1,
      SO_BROADCAST |-> 1, IP_MULTICAST_LOOP |-> 0, IPV6_MULTICAST_LOOP |-> 0,
      IPV6_V6ONLY |-> 1, IP_TTL |-> 2, IP_MULTICAST_TTL |-> 3, SO_ERROR |-> 0]}

InitGetters ==
    /\ fdtab = <<[open |-> TRUE, cloexec |-> TRUE, closes |-> 0]>>
    /\ sock = <<"moved">>
    /\ \E k \in Kinds : vals = <<k>>
    /\ creating = 0
    /\ inherited = {}
    /\ opt \in OptionProfiles
    /\ prev = NoCall
    /\ last = NoCall

NextGetters ==
    \/ nodelay
    \/ keepalive_ms
    \/ read_timeout_ms
    \/ write_timeout_ms
    \/ ttl
    \/ only_v6
    \/ broadcast
    \/ multicast_loop_v4
    \/ multicast_ttl_v4
    \/ multicast_loop_v6
    \/ take_error
    \/ PendError

SpecGetters == InitGetters /\ [][NextGetters]_vars

(***************************************************************************)
(* Keepalive on Windows (src/ext.rs, cfg(windows)): one WSAIoctl with      *)
(* SIO_KEEPALIVE_VALS passes or fetches a tcp_keepalive struct.            *)
(***************************************************************************)
\* libc::INFINITE, 0xFFFFFFFF: written as that bit pattern read as a signed
\* 32-bit integer, TLC's integers ending at 2^31 - 1
INFINITE == -1

\* ms as libc::c_ulong: u32 to u32
as_c_ulong(n) == n

\* ::cvt_win: a non-zero return of WSAIoctl becomes the OS error
cvt_win(errno, x) == IF errno = 0 THEN Ok(x) ELSE Err(OsError(errno))

\* the errors WSAIoctl may report: WSAEFAULT, WSAEINVAL
WsaErrnos == {10014, 10022}

\* timeout2ms (windows): a DWORD of milliseconds, 0 meaning none
timeout2ms_windows(dur) == IF dur = 0 THEN None ELSE Some(dur)

\* keepalive.unwrap_or(libc::INFINITE)
unwrap_or(o, default) == IF o.some THEN o.v ELSE default

\* TcpStreamExt::set_keepalive_ms (windows)
set_keepalive_ms_windows(keepalive) ==
    /\ vals[OptSock] = "stream"
    /\ \E errno \in {0} \cup WsaErrnos :
         LET ms == unwrap_or(keepalive, INFINITE)
             ka == [onoff |-> as_c_ulong(bool_as_c_int(keepalive.some)),
                    keepalivetime |-> as_c_ulong(ms),
                    keepaliveinterval |-> as_c_ulong(ms)]
             r == cvt_win(errno, Unit)
         IN  /\ opt' = IF r.ok THEN [opt EXCEPT !.SIO_KEEPALIVE_VALS = ka] ELSE opt
             /\ last' = [op |-> "set_keepalive_ms", arg |-> keepalive,
                         payload |-> ka, sys |-> <<errno>>, ret |-> r]
    /\ prev' = last
    /\ UNCHANGED <<fdtab, sock, vals, creating, inherited>>

\* keepalive_ms (windows) reporting the idle time in place of the interval
keepalive_ms_windows_idle ==
    /\ vals[OptSock] = "stream"
    /\ \E errno \in {0} \cup WsaErrnos :
         LET r == cvt_win(errno, opt.SIO_KEEPALIVE_VALS)
         IN  last' = [op |-> "keepalive_ms", sys |-> <<errno>>,
                      ret |-> IF ~r.ok THEN r
                              ELSE IF r.val.onoff = 0 THEN Ok(None)
                              ELSE Ok(timeout2ms_windows(r.val.keepalivetime))]
    /\ prev' = last
    /\ UNCHANGED <<fdtab, sock, vals, creating, inherited, opt>>
\* TcpStreamExt::keepalive_ms (windows)
keepalive_ms_windows ==
    /\ vals[OptSock] = "stream"
    /\ \E errno \in {0} \cup WsaErrnos :
         LET r == cvt_win(errno, opt.SIO_KEEPALIVE_VALS)
         IN  last' = [op |-> "keepalive_ms", sys |-> <<errno>>,
                      ret |-> IF ~r.ok THEN r
                              ELSE IF r.val.onoff = 0 THEN Ok(None)
                              ELSE Ok(timeout2ms_windows(r.val.keepaliveinterval))]
    /\ prev' = last
    /\ UNCHANGED <<fdtab, sock, vals, creating, inherited, opt>>

\* an open stream socket with the system's keepalive values (two hours idle, one
\* second between probes), keepalive on or off
InitKeepaliveWindows ==
    /\ fdtab = <<[open |-> TRUE, cloexec |-> TRUE, closes |-> 0]>>
    /\ sock = <<"moved">>
    /\ vals = <<"stream">>
    /\ creating = 0
    /\ inherited = {}
    /\ \E onoff \in {0, 1} :
         opt = [SIO_KEEPALIVE_VALS |->
                    [onoff |-> onoff, keepalivetime |-> 7200000,
                     keepaliveinterval |-> 1000]]
    /\ prev = NoCall
    /\ last = NoCall

NextKeepaliveWindows ==
    \/ \E keepalive \in OptionMs : set_keepalive_ms_windows(keepalive)
    \/ keepalive_ms_windows

SpecKeepaliveWindows == InitKeepaliveWindows /\ [][NextKeepaliveWindows]_vars

(***************************************************************************)
(* Properties                                                              *)
(***************************************************************************)

\* C1: once into_tcp_stream / into_tcp_listener / into_udp_socket has consumed a
\* Handle, the descriptor is never closed by the Handle: it is open, no close was
\* ever issued on it, and the returned value is its only owner (a descriptor has a
\* std value exactly when its Handle was moved out).
C1_IntoTransfersOwnership ==
    \A fd \in Fds :
        /\ sock[fd] = "moved" =>
             fdtab[fd].open /\ fdtab[fd].closes = 0 /\ vals[fd] \in Kinds
        /\ vals[fd] # "none" => sock[fd] = "moved"

\* C1 witness: a Handle was converted, and afterwards another Handle was torn down
\* (its descriptor closed) while the converted descriptor is still open.
C1_Witness ==
    \E fd \in Fds :
        /\ sock[fd] = "moved"
        /\ fdtab[fd].open
        /\ last.op = "drop"
        /\ last.fd # fd
        /\ fdtab[last.fd].closes = 1

\* C2: no descriptor is closed more than once; a dropped Handle that owned its
\* descriptor issued exactly one close on it and nothing else issued any; and the
\* drop returns nothing to the caller even when the close syscall failed.
C2_ExactlyOneCloseOnDrop ==
    /\ \A fd \in Fds : fdtab[fd].closes <= 1
    /\ \A fd \in Fds : fdtab[fd].closes = (IF sock[fd] = "dropped" THEN 1 ELSE 0)
    /\ last.op = "drop" => last.ret = Unit

\* C2 witness: a Handle was dropped, its close failed, and the drop reported nothing;
\* another descriptor went through explicit connect without being closed.
C2_Witness ==
    /\ last.op = "drop"
    /\ last.sys[1] # 0
    /\ last.ret = Unit
    /\ fdtab[last.fd].closes = 1
    /\ \E fd \in Fds : sock[fd] = "moved" /\ fdtab[fd].closes = 0

\* C3: create sets close-on-exec atomically with opening the socket: in no reachable
\* state is a descriptor open without the close-on-exec flag.
C3_CloexecAtomicWithOpen ==
    \A fd \in Fds : fdtab[fd].open => fdtab[fd].cloexec

\* C4: a Handle returned by create has the close-on-exec flag set, and create
\* returns an error (no Handle) when any syscall it issued failed.
C4_CreateChecksEverySyscall ==
    last.op = "create" =>
        /\ last.ret.ok => fdtab[last.ret.val].cloexec
        /\ (\E i \in DOMAIN last.sys : last.sys[i] # 0) => ~last.ret.ok

\* index of the first candidate whose connect succeeds, 0 when none does
FirstGood(addrs) ==
    LET good == {i \in DOMAIN addrs : ConnectErrno(addrs[i]) = 0}
    IN  IF good = {} THEN 0 ELSE CHOOSE i \in good : \A j \in good : i <= j

\* C5: explicit connect issues its connect syscalls for the candidates in order,
\* stops at the first one that succeeds and returns success there; no later
\* candidate is attempted; [bad1, bad2, good] gives success.
C5_ConnectFirstSuccessInOrder ==
    (last.op = "connect" /\ last.resolved) =>
        LET k == FirstGood(last.addrs)
            n == IF k = 0 THEN Len(last.addrs) ELSE k
        IN  /\ last.log = SubSeq(last.addrs, 1, n)
            /\ k # 0 => last.ret = Ok(Unit)
            /\ last.addrs = <<"bad1", "bad2", "good">> => last.ret.ok

\* C5 witness: a connect that failed on its first candidates, succeeded on a later
\* one and left at least one candidate after it untried.
C5_Witness ==
    /\ last.op = "connect"
    /\ last.resolved
    /\ last.ret.ok
    /\ Len(last.log) > 1
    /\ Len(last.log) < Len(last.addrs)

\* C6: when every candidate of a non-empty sequence fails, explicit connect returns
\* the error of the last candidate.
C6_ConnectLastError ==
    (/\ last.op = "connect"
     /\ last.resolved
     /\ last.addrs # <<>>
     /\ FirstGood(last.addrs) = 0) =>
        last.ret = Err(OsError(ConnectErrno(last.addrs[Len(last.addrs)])))

\* C6 witness: connect over [bad1, bad2] returned the error of bad2.
C6_Witness ==
    /\ last.op = "connect"
    /\ last.resolved
    /\ last.addrs = <<"bad1", "bad2">>
    /\ last.ret = Err(OsError(ConnectErrno("bad2")))
    /\ last.ret # Err(OsError(ConnectErrno("bad1")))

\* C7: explicit connect over an empty candidate sequence issues no connect syscall
\* and fails with the custom error of kind Other "no socket addresses resolved",
\* which has no OS error code.
C7_ConnectEmptySequence ==
    (last.op = "connect" /\ last.resolved /\ last.addrs = <<>>) =>
        /\ last.log = <<>>
        /\ ~last.ret.ok
        /\ last.ret.err.repr = "Custom"
        /\ last.ret.err.kind = "Other"
        /\ last.ret.err.msg = "no socket addresses resolved"
        /\ ~last.ret.err.os.some

\* C7 witness: a connect over a resolved, empty candidate sequence has returned.
C7_Witness ==
    /\ last.op = "connect"
    /\ last.resolved
    /\ last.addrs = <<>>
    /\ ~last.ret.ok

\* a timeout getter that succeeded right after a successful set of the same option
TimeoutRoundTrip ==
    /\ last.op \in {"read_timeout_ms", "write_timeout_ms"}
    /\ last.ret.ok
    /\ prev.op \in {"set_read_timeout_ms", "set_write_timeout_ms"}
    /\ prev.name = last.name
    /\ prev.ret.ok

\* C8: a read or write timeout set to Some(ms), ms > 0, on a stream or datagram
\* socket reads back as Some(v) with v within one millisecond of ms.
C8_TimeoutRoundTrip ==
    (TimeoutRoundTrip /\ prev.arg.some /\ prev.arg.v > 0) =>
        /\ last.ret.val.some
        /\ last.ret.val.v - prev.arg.v <= 1
        /\ prev.arg.v - last.ret.val.v <= 1

\* C9: a read or write timeout set to None or to Some(0) is stored as the all-zero
\* timeval and reads back as None; an all-zero timeval always reads as None.
C9_ZeroTimeoutReadsNone ==
    /\ (TimeoutRoundTrip /\ (~prev.arg.some \/ prev.arg.v = 0)) =>
          /\ opt[last.name] = [tv_sec |-> 0, tv_usec |-> 0]
          /\ last.ret.val = None
    /\ (/\ last.op \in {"read_timeout_ms", "write_timeout_ms"}
        /\ last.ret.ok
        /\ opt[last.name] = [tv_sec |-> 0, tv_usec |-> 0]) => last.ret.val = None

\* C9 witness: Some(0) was set over a non-zero timeout set before it, and the
\* getter then returned None.
C9_Witness ==
    /\ TimeoutRoundTrip
    /\ prev.arg = Some(0)
    /\ last.ret.val = None
    /\ \E n \in {"SO_RCVTIMEO", "SO_SNDTIMEO"} : opt[n] # [tv_sec |-> 0, tv_usec |-> 0]

\* C10: set_keepalive_ms(Some(ms)) writes ms converted to seconds to the idle-time
\* option, and keepalive_ms right after it returns that value converted back to
\* milliseconds: Some(ms truncated to whole seconds).
C10_KeepaliveSecondsRoundTrip ==
    (/\ last.op = "keepalive_ms"
     /\ last.ret.ok
     /\ prev.op = "set_keepalive_ms"
     /\ prev.ret.ok
     /\ prev.arg.some) =>
        /\ opt[KEEPALIVE_OPTION] = prev.arg.v \div 1000
        /\ last.ret.val = Some((prev.arg.v \div 1000) * 1000)

\* C11: keepalive_ms right after a successful set_keepalive_ms(None) returns None,
\* whatever the socket's keepalive state was; and a set_keepalive_ms(None) issues
\* one syscall, which writes the enable flag only: the stored idle time is the
\* one from before the call.
C11_DisableKeepalive ==
    /\ [](( /\ last.op = "keepalive_ms"
            /\ last.ret.ok
            /\ prev.op = "set_keepalive_ms"
            /\ prev.ret.ok
            /\ ~prev.arg.some) => last.ret.val = None)
    /\ [][( /\ last'.op = "set_keepalive_ms"
            /\ ~last'.arg.some
            /\ prev' = last) =>
                /\ Len(last'.sys) = 1
                /\ opt'[KEEPALIVE_OPTION] = opt[KEEPALIVE_OPTION]
                /\ last'.ret.ok => opt'.SO_KEEPALIVE = 0]_vars

\* C11 witness: keepalive had been enabled with an idle time of its own, was then
\* disabled, and keepalive_ms returned None with that idle time still stored.
C11_Witness ==
    /\ last.op = "keepalive_ms"
    /\ last.ret = Ok(None)
    /\ prev.op = "set_keepalive_ms"
    /\ prev.ret.ok
    /\ ~prev.arg.some
    /\ opt.SO_KEEPALIVE = 0
    /\ opt[KEEPALIVE_OPTION] = 1500

\* C12: when set_keepalive_ms(Some(ms)) sets the enable flag and the idle-time
\* syscall then fails, the call returns that syscall's OsError, keepalive is left
\* enabled and the idle time is the one stored before the call (no rollback).
C12_KeepaliveNoRollback ==
    [][( /\ last'.op = "set_keepalive_ms"
         /\ last'.arg.some
         /\ Len(last'.sys) = 2
         /\ last'.sys[1] = 0
         /\ last'.sys[2] # 0
         /\ prev' = last) =>
             /\ last'.ret = Err(OsError(last'.sys[2]))
             /\ opt'.SO_KEEPALIVE = 1
             /\ opt'[KEEPALIVE_OPTION] = opt[KEEPALIVE_OPTION]]_vars

\* C12 witness: keepalive was off (keepalive_ms had just returned None), a
\* set_keepalive_ms(Some(ms)) failed on its second syscall, and the socket now has
\* keepalive on with the idle time it had before.
C12_Witness ==
    /\ prev.op = "keepalive_ms"
    /\ prev.ret = Ok(None)
    /\ last.op = "set_keepalive_ms"
    /\ last.arg.some
    /\ Len(last.sys) = 2
    /\ last.sys[2] # 0
    /\ ~last.ret.ok
    /\ opt.SO_KEEPALIVE = 1
    /\ opt[KEEPALIVE_OPTION] = 7200

\* the errnos of the syscalls a recorded call issued, in the order issued: one
\* connect per address tried, one getsockopt/setsockopt per option touched
SyscallsOf(call) ==
    IF call.op = "connect"
    THEN [i \in 1..Len(call.log) |-> ConnectErrno(call.log[i])]
    ELSE call.sys

\* C17 as stated: any operation returns the error of its first failing syscall
\* unchanged and issues nothing after it: in the syscalls an operation issued, a
\* failure is the last one and its OsError is the operation's result.
C17_AnyOperationStopsAtFirstFailure ==
    last.op \in {"set_keepalive_ms", "keepalive_ms", "connect"} =>
        \A i \in 1..Len(SyscallsOf(last)) :
            SyscallsOf(last)[i] # 0 =>
                /\ i = Len(SyscallsOf(last))
                /\ last.ret = Err(OsError(SyscallsOf(last)[i]))

\* C17, amended: an option operation returns the error of its first failing
\* syscall unchanged and issues nothing after it (a failed enable-flag set is not
\* followed by the idle-time syscall; two syscalls at most, one per option, none
\* issued twice). Explicit connect is the exception: every connect before the
\* last one it issued failed, and its result is the result of the last one.
C17_FirstFailureShortCircuits ==
    /\ last.op \in {"set_keepalive_ms", "keepalive_ms"} =>
           /\ Len(last.sys) \in 1..2
           /\ \A i \in 1..Len(last.sys) :
                  last.sys[i] # 0 =>
                      /\ i = Len(last.sys)
                      /\ last.ret = Err(OsError(last.sys[i]))
           /\ (\A i \in 1..Len(last.sys) : last.sys[i] = 0) => last.ret.ok
    /\ (last.op = "connect" /\ last.log # <<>>) =>
           /\ \A i \in 1..(Len(last.log) - 1) : SyscallsOf(last)[i] # 0
           /\ last.ret = sock_connect(last.log[Len(last.log)])

\* C17 witness: a set_keepalive_ms(Some(ms)) whose enable-flag syscall failed: one
\* syscall issued, its error returned, nothing written.
C17_Witness ==
    /\ last.op = "set_keepalive_ms"
    /\ last.arg.some
    /\ Len(last.sys) = 1
    /\ last.sys[1] # 0
    /\ last.ret = Err(OsError(last.sys[1]))
    /\ opt.SO_KEEPALIVE = 0

\* C13: for each boolean option pair, the getter called right after a successful
\* set with v returns v; and a stored option value changes only in a successful
\* set of that very option, so that setting one option (or reading any) leaves
\* the value read for every other option as it was, and the value set stays
\* until the next set of the same option.
C13_BoolRoundTrip ==
    /\ [](( /\ last.op \in BoolGetters
            /\ last.ret.ok
            /\ prev.op \in BoolSetters
            /\ prev.name = last.name
            /\ prev.ret.ok) => last.ret.val = prev.arg)
    /\ [][\A n \in BoolOptions :
            opt'[n] # opt[n] =>
                /\ last'.op \in BoolSetters
                /\ last'.name = n
                /\ last'.ret.ok
                /\ int2bool(opt'[n]) = last'.arg]_vars

\* C13 witness: on a datagram socket, multicast loopback for IPv6 was set to false
\* and read back as false while the IPv4 one was still on and broadcast had been
\* turned on before.
C13_Witness ==
    /\ vals[OptSock] = "datagram"
    /\ last.op = "multicast_loop_v6"
    /\ last.ret = Ok(FALSE)
    /\ prev.op = "set_multicast_loop_v6"
    /\ prev.ret.ok
    /\ prev.arg = FALSE
    /\ opt.IP_MULTICAST_LOOP = 1
    /\ opt.SO_BROADCAST = 1

C15_TakeError ==
    /\ [][( /\ last'.op = "take_error"
            /\ last'.ret.ok
            /\ prev' = last) =>
                IF opt.SO_ERROR = 0
                THEN ~last'.ret.val.some
                ELSE /\ last'.ret.val.some
                     /\ last'.ret.val.v = OsError(opt.SO_ERROR)]_vars
    /\ [](( /\ last.op = "take_error"
            /\ last.ret.ok
            /\ prev.op = "take_error"
            /\ prev.ret.ok
            /\ prev.ret.val.some) => ~last.ret.val.some)

\* C15 witness: an error was pending, one take_error returned it and the next
\* returned None.
C15_Witness ==
    /\ prev.op = "take_error"
    /\ prev.ret.ok
    /\ prev.ret.val.some
    /\ prev.ret.val.v = OsError(111)
    /\ last.op = "take_error"
    /\ last.ret.ok
    /\ ~last.ret.val.some
    /\ opt.SO_ERROR = 0

\* C16: getopt returns the syscall's OsError when the syscall fails, whatever
\* length is reported; only after a successful syscall does it compare the
\* reported length with the size of the value type: on a mismatch it aborts with
\* an assertion failure, which is neither an Ok payload nor an Err value, and on a
\* match it returns the stored value.
C16_GetoptSizeAssertion ==
    last.op = "get_option" =>
        IF last.sys[1] # 0
        THEN last.ret = Err(OsError(last.sys[1]))
        ELSE IF last.len # c_int_size
             THEN /\ last.ret = AssertionFailure
                  /\ "ok" \notin DOMAIN last.ret
             ELSE last.ret = Ok(opt[last.name])

\* C16 witness: a getsockopt that succeeded and reported a length other than the
\* size of c_int: getopt panicked.
C16_Witness ==
    /\ last.op = "get_option"
    /\ last.sys[1] = 0
    /\ last.len # c_int_size
    /\ last.ret = AssertionFailure

\* C18: a leave called right after a successful join with the same group and
\* interface hands the kernel the very membership request the join handed it,
\* under the drop option name where the join used the add option name, and does
\* not fail; for IPv4 and for IPv6.
C18_JoinLeaveSamePayload ==
    /\ ( /\ prev.op = "join_multicast_v4"
         /\ prev.ret.ok
         /\ last.op = "leave_multicast_v4"
         /\ last.arg = prev.arg) =>
             /\ last.payload = prev.payload
             /\ prev.name = "IP_ADD_MEMBERSHIP"
             /\ last.name = "IP_DROP_MEMBERSHIP"
             /\ last.ret = Ok(Unit)
    /\ ( /\ prev.op = "join_multicast_v6"
         /\ prev.ret.ok
         /\ last.op = "leave_multicast_v6"
         /\ last.arg = prev.arg) =>
             /\ last.payload = prev.payload
             /\ prev.name = "IPV6_ADD_MEMBERSHIP"
             /\ last.name = "IPV6_DROP_MEMBERSHIP"
             /\ last.ret = Ok(Unit)

\* C18 witness: an IPv4 group was joined on an interface given by address and then
\* left, while the socket stayed a member of another group; the leave succeeded.
C18_Witness ==
    /\ prev.op = "join_multicast_v4"
    /\ prev.ret.ok
    /\ last.op = "leave_multicast_v4"
    /\ last.arg = prev.arg
    /\ last.arg[2] # <<0, 0, 0, 0>>
    /\ last.ret.ok
    /\ opt.ip_mc # {}
    /\ last.payload \notin opt.ip_mc

\* C19: explicit connect never closes or takes over the caller's descriptor,
\* however it ends (connected, every address failed, no address, resolution
\* failed): the step leaves the descriptor table and the owners as they were, and
\* from then on the descriptor is open, was never closed, and belongs to the
\* caller's stream or datagram value.
C19_ConnectKeepsDescriptor ==
    /\ [](last.op = "connect" =>
            /\ fdtab[last.fd].open
            /\ fdtab[last.fd].closes = 0
            /\ sock[last.fd] = "moved"
            /\ vals[last.fd] \in {"stream", "datagram"})
    /\ [][(last'.op = "connect" /\ last' # last) =>
            /\ fdtab' = fdtab
            /\ sock' = sock
            /\ vals' = vals]_vars

\* C19 witness: a connect that tried an address and failed, on a descriptor that
\* is still open and still the value's.
C19_Witness ==
    /\ last.op = "connect"
    /\ last.resolved
    /\ last.log # <<>>
    /\ ~last.ret.ok
    /\ fdtab[last.fd].open
    /\ fdtab[last.fd].closes = 0
    /\ sock[last.fd] = "moved"

\* C20 as stated: with keepalive disabled when set_keepalive_ms(Some(x)) was
\* called, and no syscall of the set failing, a keepalive_ms running concurrently
\* returns None or Some(x), never Some(the idle time stored before the set).
C20_ConcurrentReadNoneOrNew ==
    ( /\ last.pc = "done"
      /\ last.ret.ok
      /\ prev.arg.some
      /\ prev.flag_before = 0
      /\ \A i \in 1..Len(prev.sys) : prev.sys[i] = 0) =>
          \/ last.ret.val = None
          \/ last.ret.val = Some(as_u32(prev.arg.v))

\* C20, amended: under the same conditions keepalive_ms returns None, Some(x), or,
\* when it reads the flag after the set's first syscall and the idle time before
\* the set's second, Some(the idle time stored before the set).
C20_ConcurrentReadMayBeOldIdle ==
    ( /\ last.pc = "done"
      /\ last.ret.ok
      /\ prev.arg.some
      /\ prev.flag_before = 0
      /\ \A i \in 1..Len(prev.sys) : prev.sys[i] = 0) =>
          \/ last.ret.val = None
          \/ last.ret.val = Some(as_u32(prev.arg.v))
          \/ /\ last.ret.val = Some(as_u32(prev.idle_before))
             /\ Len(prev.sys) >= 1

\* C20 witness: keepalive was disabled, the set has enabled it and written its idle
\* time without a failure, and the concurrent keepalive_ms returned keepalive
\* enabled with the idle time from before the set.
C20_Witness ==
    /\ prev.pc = "done"
    /\ prev.arg.some
    /\ prev.ret.ok
    /\ prev.flag_before = 0
    /\ prev.arg.v # prev.idle_before
    /\ last.pc = "done"
    /\ last.ret = Ok(Some(as_u32(prev.idle_before)))
    /\ opt[KEEPALIVE_OPTION] = as_c_int(prev.arg.v)

\* the option getters other than take_error
OptionGetters ==
    {"nodelay", "keepalive_ms", "read_timeout_ms", "write_timeout_ms", "ttl",
     "only_v6", "broadcast", "multicast_loop_v4", "multicast_ttl_v4",
     "multicast_loop_v6"}

\* C21: a call of an option getter other than take_error, whether it returns Ok
\* or Err, leaves every option value and the pending-error slot (opt), the
\* descriptor table and the descriptor's owner as they were; it issues one or two
\* option-get syscalls and nothing else.
C21_GettersChangeNothing ==
    [][( /\ last'.op \in OptionGetters
         /\ prev' = last) =>
             /\ opt' = opt
             /\ fdtab' = fdtab
             /\ sock' = sock
             /\ vals' = vals
             /\ creating' = creating
             /\ inherited' = inherited
             /\ Len(last'.sys) \in 1..2]_vars

\* C21 witness: with an error pending and the options away from their defaults,
\* one getter succeeded and the next failed, and the error is still pending.
C21_Witness ==
    /\ prev.op \in OptionGetters
    /\ prev.ret.ok
    /\ last.op \in OptionGetters
    /\ ~last.ret.ok
    /\ opt.SO_ERROR # 0
    /\ opt.IP_TTL = 2
    /\ fdtab[OptSock].open
    /\ sock[OptSock] = "moved"

=============================================================================
